---- MODULE Spec2Model ----
(***************************************************************************)
(* Model of frontend/src/Components/SignalRConnector.js: a React component *)
(* that owns a SignalR HubConnection, retries it with a capped backoff and *)
(* routes the hub's named messages to handler methods that dispatch store  *)
(* actions.                                                                *)
(*                                                                         *)
(* JavaScript runs one task at a time.  Every action below is one task of  *)
(* the event loop (a lifecycle call, a timer callback, a hub callback)     *)
(* together with the promise callbacks (microtasks) it triggers.  The hub  *)
(* connection, the timers, the wall clock and the store are the            *)
(* environment: their events are the nondeterministic choices of Next.     *)
(***************************************************************************)
EXTENDS Integers, Sequences, FiniteSets, TLC

\* ---- bounds of the model -------------------------------------------------
MaxTimers == 3        \* at most this many retry timers pending at once
MaxTicks == 2         \* the wall clock is observed at this many later instants
TickSeconds == 180    \* seconds between two observed instants of the clock
StartTime == 1        \* wall clock (epoch seconds) when the component is built

\* ---- constants of the program --------------------------------------------
null == 0                      \* null is falsy, as is 0: the code only tests truthiness
InitialRetryInterval == 1      \* constructor: this.retryInterval = 1
ConnectedRetryInterval == 5    \* onConnected: this.retryInterval = 5
MaxRetryInterval == 10         \* Math.min(this.retryInterval + 1, 10)
DisconnectedAfter == 180       \* isAppDisconnected: ... > 180

VARIABLES
  lifecycle,        \* "constructed", "mounted" or "unmounted"
  connection,       \* this.connection: "null" or "hub"
  registered,       \* callbacks registered on the hub connection
  connState,        \* the hub connection: "Disconnected", "Connecting", "Connected"
  retryInterval,    \* this.retryInterval (seconds)
  retryTimeoutId,   \* this.retryTimeoutId
  disconnectedTime, \* this.disconnectedTime (epoch seconds or null)
  timers,           \* pending setTimeout timers, in the order they were set
  now,              \* Math.floor(new Date().getTime() / 1000)
  unloading,        \* window.Lidarr.unloading
  app,              \* state.app: the connection-status flags of the store
  isQueuePopulated, \* state.queue.paged.isPopulated
  lastOp,           \* the task that ran last
  calls,            \* the calls that task made on its collaborators, in order
  retried,          \* history: retryConnection ran since mount or since the last open
  reopened,         \* history: value of retried when onConnected last ran
  prevDelay,        \* history: delay of the retry before the last one of this outage (0: none)
  lastDelay,        \* history: delay of the last retry scheduled in this outage (0: none)
  owed              \* history: a retry was scheduled and no start was attempted since

vars == <<lifecycle, connection, registered, connState, retryInterval,
          retryTimeoutId, disconnectedTime, timers, now, unloading, app,
          isQueuePopulated, lastOp, calls, retried, reopened, prevDelay,
          lastDelay, owed>>

Min(a, b) == IF a < b THEN a ELSE b

Call(fn, arg) == [fn |-> fn, arg |-> arg]

\* the calls named fn among cs
CallsOf(cs, fn) == SelectSeq(cs, LAMBDA c : c.fn = fn)

\* ---- the part of the state a task of the component reads and writes ------
Self ==
  [connection |-> connection, connState |-> connState,
   retryInterval |-> retryInterval, retryTimeoutId |-> retryTimeoutId,
   disconnectedTime |-> disconnectedTime, timers |-> timers, app |-> app,
   calls |-> <<>>, rejected |-> FALSE,
   retried |-> retried, reopened |-> reopened, prevDelay |-> prevDelay,
   lastDelay |-> lastDelay, owed |-> owed]

Commit(s, op) ==
  /\ connection' = s.connection
  /\ connState' = s.connState
  /\ retryInterval' = s.retryInterval
  /\ retryTimeoutId' = s.retryTimeoutId
  /\ disconnectedTime' = s.disconnectedTime
  /\ timers' = s.timers
  /\ app' = s.app
  /\ calls' = s.calls
  /\ retried' = s.retried
  /\ reopened' = s.reopened
  /\ prevDelay' = s.prevDelay
  /\ lastDelay' = s.lastDelay
  /\ owed' = s.owed
  /\ lastOp' = op

Log(s, fn, arg) == [s EXCEPT !.calls = Append(@, Call(fn, arg))]

\* ---- collaborators -------------------------------------------------------

\* the store's reducer for setAppValue: the given flags replace the old ones
Merge(flags, attrs) ==
  [k \in DOMAIN flags |-> IF k \in DOMAIN attrs THEN attrs[k] ELSE flags[k]]

\* the action is built and never reaches the store
dispatchSetAppValueDropped(s, attrs) == Log(s, "dispatchSetAppValue", attrs)

\* this.props.dispatchSetAppValue(attrs): the action reaches the store
dispatchSetAppValue(s, attrs) ==
  [Log(s, "dispatchSetAppValue", attrs) EXCEPT !.app = Merge(s.app, attrs)]

\* setAppValue(attrs): the imported action creator builds an action object;
\* nothing dispatches it, so the store does not change
setAppValue(s, attrs) == Log(s, "setAppValue", attrs)

\* setTimeout returns an id no pending timer has; ids are never reused, so
\* the new id also differs from the one retryTimeoutId still holds
NewTimerId(s) ==
  CHOOSE id \in 1..(MaxTimers + 2) :
    /\ id # s.retryTimeoutId
    /\ \A i \in 1..Len(s.timers) : s.timers[i].id # id

setTimeout(s, delay) ==
  [Log(s, "setTimeout", delay) EXCEPT
     !.timers = Append(@, [id |-> NewTimerId(s), delay |-> delay])]

clearTimeout(s, id) ==
  [Log(s, "clearTimeout", id) EXCEPT
     !.timers = SelectSeq(@, LAMBDA t : t.id # id)]

\* HubConnection.start(): only a disconnected connection starts connecting;
\* on any other the returned promise is rejected at once
hubStart(s) ==
  IF s.connState = "Disconnected"
    THEN [Log(s, "start", s.connState) EXCEPT !.connState = "Connecting"]
    ELSE [Log(s, "start", s.connState) EXCEPT !.rejected = TRUE]

\* ---- functions of the source ---------------------------------------------

isAppDisconnected(time, t) ==
  IF time = null THEN FALSE ELSE t - time > DisconnectedAfter

startConnection(s) == [hubStart(s) EXCEPT !.owed = FALSE]

retryAttrs(s, t) ==
  IF isAppDisconnected(s.disconnectedTime, t)
    THEN [isReconnecting |-> TRUE, isConnected |-> FALSE, isDisconnected |-> TRUE]
    ELSE [isReconnecting |-> TRUE]

retryConnection(s, t) ==
  LET s1 == setAppValue(s, retryAttrs(s, t))
      s2 == setTimeout(s1, s1.retryInterval)
  IN  [s2 EXCEPT !.retryTimeoutId = NewTimerId(s1),
                 !.retried = TRUE,
                 !.prevDelay = s.lastDelay,
                 !.lastDelay = s.retryInterval,
                 !.owed = TRUE]

\* the callback with its cap off by one
retryTimeoutCapOffByOne(s) ==
  LET s1 == startConnection(s)
  IN  [s1 EXCEPT !.retryInterval = Min(@ + 1, MaxRetryInterval + 1)]

\* the callback retryConnection hands to setTimeout
retryTimeout(s) ==
  LET s1 == startConnection(s)
  IN  [s1 EXCEPT !.retryInterval = Min(@ + 1, MaxRetryInterval)]

\* onClose without the test of window.Lidarr.unloading
onCloseIgnoresUnloading(s, t, unl) ==
  retryConnection(
    [s EXCEPT !.disconnectedTime = IF @ = null THEN t ELSE @], t)

onClose(s, t, unl) ==
  IF unl
    THEN s
    ELSE retryConnection(
           [s EXCEPT !.disconnectedTime = IF @ = null THEN t ELSE @], t)

\* onError stamping the time of every failure
onErrorRestamps(s, t, unl) ==
  IF unl
    THEN s
    ELSE retryConnection([s EXCEPT !.disconnectedTime = t], t)

onError(s, t, unl) ==
  IF unl
    THEN s
    ELSE retryConnection(
           [s EXCEPT !.disconnectedTime = IF @ = null THEN t ELSE @], t)

\* onConnected refetching only when isReconnecting is set
onConnectedReconnectingOnly(s, isReconnecting, isDisconnected) ==
  LET s1 == [s EXCEPT !.disconnectedTime = null]
      s2 == IF isReconnecting
              THEN Log(Log(Log(s1, "dispatchFetchArtist", <<>>),
                           "dispatchFetchCommands", <<>>),
                       "repopulatePage", <<>>)
              ELSE s1
      s3 == dispatchSetAppValue(s2,
              [isConnected |-> TRUE, isReconnecting |-> FALSE,
               isDisconnected |-> FALSE, isRestarting |-> FALSE])
      s4 == [s3 EXCEPT !.retryInterval = ConnectedRetryInterval]
      s5 == IF s4.retryTimeoutId # null
              THEN clearTimeout(s4, s4.retryTimeoutId)
              ELSE s4
  IN  [s5 EXCEPT !.reopened = s.retried, !.retried = FALSE,
                 !.prevDelay = 0, !.lastDelay = 0]

onConnected(s, isReconnecting, isDisconnected) ==
  LET s1 == [s EXCEPT !.disconnectedTime = null]
      s2 == IF isReconnecting \/ isDisconnected
              THEN Log(Log(Log(s1, "dispatchFetchArtist", <<>>),
                           "dispatchFetchCommands", <<>>),
                       "repopulatePage", <<>>)
              ELSE s1
      s3 == dispatchSetAppValue(s2,
              [isConnected |-> TRUE, isReconnecting |-> FALSE,
               isDisconnected |-> FALSE, isRestarting |-> FALSE])
      s4 == [s3 EXCEPT !.retryInterval = ConnectedRetryInterval]
      s5 == IF s4.retryTimeoutId # null
              THEN clearTimeout(s4, s4.retryTimeoutId)
              ELSE s4
  IN  [s5 EXCEPT !.reopened = s.retried, !.retried = FALSE,
                 !.prevDelay = 0, !.lastDelay = 0]

\* a start promise rejected during the task runs onError before the next task
Settle(s, t, unl) ==
  IF s.rejected THEN onError([s EXCEPT !.rejected = FALSE], t, unl) ELSE s

\* ---- message routing -----------------------------------------------------

LowerLetters == "abcdefghijklmnopqrstuvwxyz"
UpperLetters == "ABCDEFGHIJKLMNOPQRSTUVWXYZ"
Digits == "0123456789_"

CharAt(str, i) == SubSeq(str, i, i)

Contains(str, c) == \E i \in 1..Len(str) : CharAt(str, i) = c

\* String.prototype.toUpperCase on one character
toUpperCase(c) ==
  IF Contains(LowerLetters, c)
    THEN CharAt(UpperLetters, CHOOSE i \in 1..Len(LowerLetters) : CharAt(LowerLetters, i) = c)
    ELSE c

\* \w of a regular expression
IsWordChar(c) ==
  Contains(LowerLetters, c) \/ Contains(UpperLetters, c) \/ Contains(Digits, c)

\* the value of a variable that was never assigned
undefined == "undefined"

RECURSIVE TitleCaseFrom(_, _)
TitleCaseFrom(input, i) ==
  IF i > Len(input)
    THEN ""
    ELSE (IF i = 1 \/ ~IsWordChar(CharAt(input, i - 1))
            THEN toUpperCase(CharAt(input, i))
            ELSE CharAt(input, i)) \o TitleCaseFrom(input, i + 1)

\* Utilities/String/titleCase: the first letter of every word in upper case
titleCase(input) ==
  IF input = undefined \/ input = "" THEN "" ELSE TitleCaseFrom(input, 1)

\* String.prototype.replace(pattern, '') with a string pattern: the first
\* occurrence of the one-character pattern is removed
replace(str, pattern) ==
  IF Contains(str, pattern)
    THEN LET i == CHOOSE k \in 1..Len(str) :
                    /\ CharAt(str, k) = pattern
                    /\ \A j \in 1..(k - 1) : CharAt(str, j) # pattern
         IN  SubSeq(str, 1, i - 1) \o SubSeq(str, i + 1, Len(str))
    ELSE str

\* getHandlerName without the removal of the slash
getHandlerNameKeepSlash(name) == "handle" \o titleCase(name)

getHandlerName(name) == "handle" \o replace(titleCase(name), "/")

\* the properties of the instance whose names start with "handle"
Handlers ==
  {"handleMessage", "handleCalendar", "handleCommand", "handleAlbum",
   "handleTrack", "handleTrackfile", "handleHealth", "handleArtist",
   "handleQueue", "handleQueueDetails", "handleQueueStatus", "handleVersion",
   "handleWantedCutoff", "handleWantedMissing", "handleSystemTask",
   "handleRootfolder", "handleTag"}

\* a property of an object that may lack it
Field(obj, f) == IF f \in DOMAIN obj THEN obj[f] ELSE undefined

\* { section, updateOnly: true, ...body.resource }
UpdateOnly(section, body) ==
  [section |-> section, updateOnly |-> TRUE, resource |-> body.resource]

handleCalendar(s, body) ==
  IF body.action = "updated"
    THEN Log(s, "dispatchUpdateItem", UpdateOnly("calendar", body))
    ELSE s

\* handleCommand finishing only the commands that completed
handleCommandCompletedOnly(s, body) ==
  IF body.action = "sync"
    THEN Log(s, "dispatchFetchCommands", <<>>)
    ELSE IF body.resource.status = "completed"
           THEN Log(s, "dispatchFinishCommand", body.resource)
           ELSE Log(s, "dispatchUpdateCommand", body.resource)

handleCommand(s, body) ==
  IF body.action = "sync"
    THEN Log(s, "dispatchFetchCommands", <<>>)
    ELSE IF body.resource.status = "completed" \/ body.resource.status = "failed"
           THEN Log(s, "dispatchFinishCommand", body.resource)
           ELSE Log(s, "dispatchUpdateCommand", body.resource)

handleAlbum(s, body) ==
  IF body.action = "updated"
    THEN Log(s, "dispatchUpdateItem", UpdateOnly("albums", body))
    ELSE s

handleTrack(s, body) ==
  IF body.action = "updated"
    THEN Log(s, "dispatchUpdateItem", UpdateOnly("tracks", body))
    ELSE s

\* handleTrackfile repopulating only when it dispatched
handleTrackfileRepopulatesOnChange(s, body) ==
  LET section == "trackFiles"
  IN  IF body.action = "updated"
        THEN Log(Log(s, "dispatchUpdateItem",
                     [section |-> section, resource |-> body.resource]),
                 "repopulatePage", "trackFileUpdated")
        ELSE IF body.action = "deleted"
               THEN Log(Log(s, "dispatchRemoveItem",
                            [section |-> section, id |-> body.resource.id]),
                        "repopulatePage", "trackFileUpdated")
               ELSE s

handleTrackfile(s, body) ==
  LET section == "trackFiles"
      s1 == IF body.action = "updated"
              THEN Log(s, "dispatchUpdateItem",
                       [section |-> section, resource |-> body.resource])
              ELSE IF body.action = "deleted"
                     THEN Log(s, "dispatchRemoveItem",
                              [section |-> section, id |-> body.resource.id])
                     ELSE s
  IN  Log(s1, "repopulatePage", "trackFileUpdated")

handleHealth(s, body) == Log(s, "dispatchFetchHealth", <<>>)

handleArtist(s, body) ==
  LET section == "artist"
  IN  IF body.action = "updated"
        THEN Log(s, "dispatchUpdateItem",
                 [section |-> section, resource |-> body.resource])
        ELSE IF body.action = "deleted"
               THEN Log(s, "dispatchRemoveItem",
                        [section |-> section, id |-> body.resource.id])
               ELSE s

\* handleQueue without the test of isQueuePopulated
handleQueueAlways(s, body, populated) == Log(s, "dispatchFetchQueue", <<>>)

handleQueue(s, body, populated) ==
  IF populated THEN Log(s, "dispatchFetchQueue", <<>>) ELSE s

handleQueueDetails(s, body) == Log(s, "dispatchFetchQueueDetails", <<>>)

handleQueueStatus(s, body) ==
  Log(s, "dispatchUpdate", [section |-> "queue.status", data |-> body.resource])

handleVersion(s, body) ==
  Log(s, "dispatchSetVersion", [version |-> Field(body, "Version")])

handleWantedCutoff(s, body) ==
  IF body.action = "updated"
    THEN Log(s, "dispatchUpdateItem", UpdateOnly("cutoffUnmet", body))
    ELSE s

handleWantedMissing(s, body) ==
  IF body.action = "updated"
    THEN Log(s, "dispatchUpdateItem", UpdateOnly("missing", body))
    ELSE s

handleSystemTask(s, body) == s

handleRootfolder(s, body) == Log(s, "dispatchFetchRootFolders", <<>>)

handleTag(s, body) ==
  IF body.action = "sync"
    THEN Log(Log(s, "dispatchFetchTags", <<>>), "dispatchFetchTagDetails", <<>>)
    ELSE s

RECURSIVE handleMessage(_, _, _)
\* handler(body), for the handler found under the name h
Invoke(h, s, body, populated) ==
  CASE h = "handleMessage" -> handleMessage(s, body, populated)
    [] h = "handleCalendar" -> handleCalendar(s, body)
    [] h = "handleCommand" -> handleCommand(s, body)
    [] h = "handleAlbum" -> handleAlbum(s, body)
    [] h = "handleTrack" -> handleTrack(s, body)
    [] h = "handleTrackfile" -> handleTrackfile(s, body)
    [] h = "handleHealth" -> handleHealth(s, body)
    [] h = "handleArtist" -> handleArtist(s, body)
    [] h = "handleQueue" -> handleQueue(s, body, populated)
    [] h = "handleQueueDetails" -> handleQueueDetails(s, body)
    [] h = "handleQueueStatus" -> handleQueueStatus(s, body)
    [] h = "handleVersion" -> handleVersion(s, body)
    [] h = "handleWantedCutoff" -> handleWantedCutoff(s, body)
    [] h = "handleWantedMissing" -> handleWantedMissing(s, body)
    [] h = "handleSystemTask" -> handleSystemTask(s, body)
    [] h = "handleRootfolder" -> handleRootfolder(s, body)
    [] h = "handleTag" -> handleTag(s, body)

handleMessage(s, message, populated) ==
  LET name == Field(message, "name")
      body == Field(message, "body")
      handler == getHandlerName(name)
  IN  IF handler \in Handlers
        THEN Invoke(handler, Log(s, "handler", [name |-> handler, body |-> body]),
                    body, populated)
        ELSE Log(s, "console.error", name)

onReceiveMessage(s, message, populated) ==
  handleMessage(Log(s, "console.debug", message), message, populated)

onReceiveVersion(s, message) ==
  Log(s, "dispatchSetVersion", [version |-> message.body.version])

\* ---- inputs --------------------------------------------------------------
MessageNames ==
  {"calendar", "command", "album", "track", "trackfile", "health", "artist",
   "queue", "queue/details", "queue/status", "version", "wanted/cutoff",
   "wanted/missing", "system/task", "rootfolder", "tag",
   "message", "systemtask", "series", ""}

Actions == {"updated", "deleted", "sync", "added"}

Statuses == {"completed", "failed", "started"}

Bodies ==
  {[action |-> a, resource |-> [id |-> 1, status |-> st], Version |-> "1.0"] :
     a \in Actions, st \in Statuses}

AppAttrs ==
  {[isReconnecting |-> TRUE],
   [isDisconnected |-> TRUE, isConnected |-> FALSE, isRestarting |-> TRUE]}

\* ---- initial state: the component as its constructor leaves it -----------
Init ==
  /\ lifecycle = "constructed"
  /\ connection = "null"
  /\ registered = {}
  /\ connState = "Disconnected"
  /\ retryInterval = InitialRetryInterval
  /\ retryTimeoutId = null
  /\ disconnectedTime = null
  /\ timers = <<>>
  /\ now = StartTime
  /\ unloading = FALSE
  /\ app = [isConnected |-> TRUE, isReconnecting |-> FALSE,
            isDisconnected |-> FALSE, isRestarting |-> FALSE]
  /\ isQueuePopulated = FALSE
  /\ lastOp = "constructor"
  /\ calls = <<>>
  /\ retried = FALSE
  /\ reopened = FALSE
  /\ prevDelay = 0
  /\ lastDelay = 0
  /\ owed = FALSE

\* ---- tasks ---------------------------------------------------------------

\* componentDidMount starting the connection before it registers callbacks
MountStartsFirst ==
  /\ lifecycle = "constructed"
  /\ lifecycle' = "mounted"
  /\ registered' = {"onclose", "receiveVersion", "receiveMessage"}
  /\ LET s1 == Log([Self EXCEPT !.connection = "hub"], "build", <<>>)
         s2 == Settle(startConnection(s1), now, unloading)
         s3 == Log(s2, "onclose", <<>>)
         s4 == Log(s3, "on", "receiveVersion")
         s5 == Log(s4, "on", "receiveMessage")
     IN  Commit(s5, "componentDidMount")
  /\ UNCHANGED <<now, unloading, isQueuePopulated>>

\* componentDidMount
Mount ==
  /\ lifecycle = "constructed"
  /\ lifecycle' = "mounted"
  /\ registered' = {"onclose", "receiveVersion", "receiveMessage"}
  /\ LET s1 == Log([Self EXCEPT !.connection = "hub"], "build", <<>>)
         s2 == Log(s1, "onclose", <<>>)
         s3 == Log(s2, "on", "receiveVersion")
         s4 == Log(s3, "on", "receiveMessage")
     IN  Commit(Settle(startConnection(s4), now, unloading), "componentDidMount")
  /\ UNCHANGED <<now, unloading, isQueuePopulated>>

\* the promise of connection.start() is fulfilled: .then(this.onConnected)
StartResolved ==
  /\ lifecycle = "mounted"
  /\ connState = "Connecting"
  /\ Commit(onConnected([Self EXCEPT !.connState = "Connected"],
                        app.isReconnecting, app.isDisconnected),
            "onConnected")
  /\ UNCHANGED <<lifecycle, registered, now, unloading, isQueuePopulated>>

\* the connection could not be established: .catch(this.onError)
StartRejected ==
  /\ connState = "Connecting"
  /\ Len(timers) < MaxTimers
  /\ Commit(onError([Self EXCEPT !.connState = "Disconnected"], now, unloading),
            "onError")
  /\ UNCHANGED <<lifecycle, registered, now, unloading, isQueuePopulated>>

\* the connection closes during the handshake of start(): the hub runs the
\* onclose callback and rejects the promise of start()
HandshakeClosed ==
  /\ connState = "Connecting"
  /\ "onclose" \in registered
  /\ Len(timers) + 2 <= MaxTimers
  /\ Commit(onError(onClose([Self EXCEPT !.connState = "Disconnected"],
                            now, unloading),
                    now, unloading),
            "onClose+onError")
  /\ UNCHANGED <<lifecycle, registered, now, unloading, isQueuePopulated>>

\* an open connection closes: the hub runs the onclose callback
ConnectionClosed ==
  /\ connState = "Connected"
  /\ "onclose" \in registered
  /\ Len(timers) < MaxTimers
  /\ Commit(onClose([Self EXCEPT !.connState = "Disconnected"], now, unloading),
            "onClose")
  /\ UNCHANGED <<lifecycle, registered, now, unloading, isQueuePopulated>>

\* timers fire in the order of their due times: a timer set earlier with a
\* delay that is not longer is due first
CanFire(i) ==
  \A j \in 1..(i - 1) : timers[j].delay > timers[i].delay

RemoveAt(seq, i) == SubSeq(seq, 1, i - 1) \o SubSeq(seq, i + 1, Len(seq))

\* a retry timer fires; after componentWillUnmount this.connection is null
\* and the callback throws before it changes anything
TimerFire(i) ==
  /\ i \in 1..Len(timers)
  /\ CanFire(i)
  /\ LET s == [Self EXCEPT !.timers = RemoveAt(@, i)]
     IN  IF s.connection = "null"
           THEN Commit(Log(s, "TypeError", <<>>), "retryTimeout")
           ELSE Commit(Settle(retryTimeout(s), now, unloading), "retryTimeout")
  /\ UNCHANGED <<lifecycle, registered, now, unloading, isQueuePopulated>>

TimerFires == \E i \in 1..MaxTimers : TimerFire(i)

\* the wall clock is read at a later instant
Tick ==
  /\ now < StartTime + MaxTicks * TickSeconds
  /\ now' = now + TickSeconds
  /\ lastOp' = "environment"
  /\ calls' = <<>>
  /\ UNCHANGED <<lifecycle, connection, registered, connState, retryInterval,
                 retryTimeoutId, disconnectedTime, timers, unloading, app,
                 isQueuePopulated, retried, reopened, prevDelay, lastDelay, owed>>

\* the page starts to unload
Unload ==
  /\ ~unloading
  /\ unloading' = TRUE
  /\ lastOp' = "environment"
  /\ calls' = <<>>
  /\ UNCHANGED <<lifecycle, connection, registered, connState, retryInterval,
                 retryTimeoutId, disconnectedTime, timers, now, app,
                 isQueuePopulated, retried, reopened, prevDelay, lastDelay, owed>>

\* the hub delivers 'receiveMessage'
ReceiveMessage(name, body) ==
  /\ connState = "Connected"
  /\ "receiveMessage" \in registered
  /\ Commit(onReceiveMessage(Self, [name |-> name, body |-> body],
                             isQueuePopulated),
            "onReceiveMessage")
  /\ UNCHANGED <<lifecycle, registered, now, unloading, isQueuePopulated>>

ReceiveMessages == \E name \in MessageNames, body \in Bodies : ReceiveMessage(name, body)

\* the hub delivers 'receiveVersion'
ReceiveVersion ==
  /\ connState = "Connected"
  /\ "receiveVersion" \in registered
  /\ Commit(onReceiveVersion(Self, [body |-> [version |-> "1.0"]]),
            "onReceiveVersion")
  /\ UNCHANGED <<lifecycle, registered, now, unloading, isQueuePopulated>>

\* another part of the application dispatches setAppValue; the component
\* reads the flags through its props
StoreChanged(attrs) ==
  /\ app' = Merge(app, attrs)
  /\ app' # app
  /\ lastOp' = "environment"
  /\ calls' = <<>>
  /\ UNCHANGED <<lifecycle, connection, registered, connState, retryInterval,
                 retryTimeoutId, disconnectedTime, timers, now, unloading,
                 isQueuePopulated, retried, reopened, prevDelay, lastDelay, owed>>

StoreChanges == \E attrs \in AppAttrs : StoreChanged(attrs)

\* the paged queue of the store is fetched
QueuePopulated ==
  /\ ~isQueuePopulated
  /\ isQueuePopulated' = TRUE
  /\ lastOp' = "environment"
  /\ calls' = <<>>
  /\ UNCHANGED <<lifecycle, connection, registered, connState, retryInterval,
                 retryTimeoutId, disconnectedTime, timers, now, unloading, app,
                 retried, reopened, prevDelay, lastDelay, owed>>

\* componentWillUnmount
Unmount ==
  /\ lifecycle = "mounted"
  /\ lifecycle' = "unmounted"
  /\ Commit([Log(Self, "stop", <<>>) EXCEPT !.connection = "null"],
            "componentWillUnmount")
  /\ UNCHANGED <<registered, now, unloading, isQueuePopulated>>

\* the connection and its retries
Next ==
  \/ Mount
  \/ StartResolved
  \/ StartRejected
  \/ HandshakeClosed
  \/ ConnectionClosed
  \/ TimerFires
  \/ Tick
  \/ Unload
  \/ StoreChanges
  \/ Unmount

Spec == Init /\ [][Next]_vars

\* the browser fires every timer that stays pending
FairSpec == Spec /\ WF_vars(TimerFires)

\* the messages of an open connection
MessageNext ==
  \/ Mount
  \/ StartResolved
  \/ ReceiveMessages
  \/ ReceiveVersion
  \/ QueuePopulated

MessageSpec == Init /\ [][MessageNext]_vars

\* ---- properties ----------------------------------------------------------

Count(cs, fn) == Len(CallsOf(cs, fn))

\* fetchArtist, fetchCommands and repopulatePage were each called once
RefetchedOnce(cs) ==
  /\ Count(cs, "dispatchFetchArtist") = 1
  /\ Count(cs, "dispatchFetchCommands") = 1
  /\ Count(cs, "repopulatePage") = 1

NoRefetch(cs) ==
  /\ Count(cs, "dispatchFetchArtist") = 0
  /\ Count(cs, "dispatchFetchCommands") = 0
  /\ Count(cs, "repopulatePage") = 0

\* the last task ran retryConnection
RetryStarted == Count(calls, "setTimeout") > 0

\* C1: when the connection opens after at least one retryConnection ran since
\* mount or since the last open, onConnected refetches artists and commands
\* and repopulates the page.
C1_ReopenRefetches ==
  (lastOp = "onConnected" /\ reopened) => RefetchedOnce(calls)

\* C2: when retryConnection starts a retry, the store has isReconnecting set,
\* and if the outage began more than 180 seconds ago also isConnected cleared
\* and isDisconnected set.
C2_RetryUpdatesStore ==
  RetryStarted =>
    /\ app.isReconnecting
    /\ isAppDisconnected(disconnectedTime, now) =>
         (~app.isConnected /\ app.isDisconnected)

\* C3: onConnected resets the retry interval to its initial value of 1 second,
\* so the first retry of an outage is scheduled with the delay of the first
\* retry of a freshly mounted component.
C3_OpenClearsBackoff ==
  /\ lastOp = "onConnected" => retryInterval = InitialRetryInterval
  /\ (RetryStarted /\ prevDelay = 0) => lastDelay = InitialRetryInterval

\* C4: retryInterval is always an integer between 1 and 10, and no retry
\* timer is ever scheduled with a delay of more than 10 seconds.
C4_IntervalInRange ==
  /\ retryInterval \in InitialRetryInterval..MaxRetryInterval
  /\ \A i \in 1..Len(timers) :
       timers[i].delay \in InitialRetryInterval..MaxRetryInterval
  /\ lastDelay <= MaxRetryInterval

\* a retry was scheduled with the capped delay and a later timer callback
\* left the interval at the cap
C4_Witness ==
  /\ lastOp = "retryTimeout"
  /\ retryInterval = MaxRetryInterval
  /\ lastDelay = MaxRetryInterval
  /\ \E i \in 1..Len(timers) : timers[i].delay = MaxRetryInterval

\* C5: within one outage every retry is scheduled with a delay exactly one
\* second longer than the retry before it, until the delay is 10 seconds.
C5_LinearBackoff ==
  (RetryStarted /\ prevDelay > 0) =>
    lastDelay = Min(prevDelay + 1, MaxRetryInterval)

\* C6: while the component is mounted and the page is not unloading, every
\* close and every failed start is eventually followed by another start
\* attempt.
C6_RetryNeverGivesUp ==
  [](owed => <>(~owed \/ lifecycle # "mounted" \/ unloading))

\* the handler every message name of MessageNames stands for: "handle" and
\* the capitalised name, "" where the instance has no such method
Route(name) ==
  CASE name = "calendar" -> "handleCalendar"
    [] name = "command" -> "handleCommand"
    [] name = "album" -> "handleAlbum"
    [] name = "track" -> "handleTrack"
    [] name = "trackfile" -> "handleTrackfile"
    [] name = "health" -> "handleHealth"
    [] name = "artist" -> "handleArtist"
    [] name = "queue" -> "handleQueue"
    [] name = "queue/details" -> "handleQueueDetails"
    [] name = "queue/status" -> "handleQueueStatus"
    [] name = "version" -> "handleVersion"
    [] name = "wanted/cutoff" -> "handleWantedCutoff"
    [] name = "wanted/missing" -> "handleWantedMissing"
    [] name = "system/task" -> "handleSystemTask"
    [] name = "rootfolder" -> "handleRootfolder"
    [] name = "tag" -> "handleTag"
    [] name = "message" -> "handleMessage"
    [] OTHER -> ""

\* C7: for every received message either the method named "handle" plus the
\* capitalised message name is invoked exactly once with the body of the
\* message, or, when the instance has no such method, an error is logged and
\* nothing is dispatched.
C7_MessageRouted ==
  lastOp = "onReceiveMessage" =>
    LET message == calls[1].arg
        invoked == CallsOf(calls, "handler")
        errors == CallsOf(calls, "console.error")
    IN  IF Route(message.name) # ""
          THEN /\ invoked = <<Call("handler", [name |-> Route(message.name),
                                               body |-> message.body])>>
               /\ \A i \in 1..Len(errors) : errors[i].arg # message.name
          ELSE /\ invoked = <<>>
               /\ errors = <<Call("console.error", message.name)>>
               /\ \A i \in 1..Len(calls) :
                    calls[i].fn \in {"console.debug", "console.error"}

\* a message whose name has a slash reached its handler, which dispatched
C7_Witness ==
  /\ lastOp = "onReceiveMessage"
  /\ calls[1].arg.name = "wanted/missing"
  /\ Count(calls, "handler") = 1
  /\ Count(calls, "dispatchUpdateItem") = 1

\* C8: when the connection opens, fetchArtist, fetchCommands and
\* repopulatePage are each invoked exactly once if the store has
\* isReconnecting or isDisconnected set at that moment, and none of them is
\* invoked if both are clear.
C8_ConditionalRefetch ==
  [][lastOp' = "onConnected" =>
       IF app.isReconnecting \/ app.isDisconnected
         THEN RefetchedOnce(calls')
         ELSE NoRefetch(calls')]_vars

\* the connection opened while a flag was set, and the refetch ran
C8_Witness ==
  /\ lastOp = "onConnected"
  /\ RefetchedOnce(calls)

\* C9: while the connection is open no retry timer is pending and no start
\* is attempted on it.
C9_NoStartWhileOpen ==
  /\ connState = "Connected" => timers = <<>>
  /\ \A i \in 1..Len(calls) :
       calls[i].fn = "start" => calls[i].arg # "Connected"

\* C10: at most one retry timer is pending, retryTimeoutId identifies it, and
\* no start is attempted while another is in flight.
C10_SingleTimer ==
  /\ Len(timers) <= 1
  /\ timers # <<>> => timers[1].id = retryTimeoutId
  /\ \A i \in 1..Len(calls) :
       calls[i].fn = "start" => calls[i].arg # "Connecting"

\* C11: after componentWillUnmount no connection start is attempted and
\* startConnection never runs with this.connection equal to null.
C11_NoStartAfterUnmount ==
  lifecycle = "unmounted" =>
    \A i \in 1..Len(calls) : calls[i].fn \notin {"start", "TypeError"}

\* the last task ran onClose or onError
FailureHandled == lastOp \in {"onClose", "onError", "onClose+onError"}

\* the attrs of every setAppValue call of the task carry the disconnected
\* status exactly when b holds
DisconnectedComputed(cs, b) ==
  \A i \in 1..Len(cs) :
    cs[i].fn = "setAppValue" => (("isDisconnected" \in DOMAIN cs[i].arg) <=> b)

\* C12: disconnectedTime is null exactly while no close or error was handled
\* since mount or since the last open; the first close or error of an outage
\* sets it to the current time, every later one leaves it unchanged, and
\* onConnected clears it; a retry computes the disconnected status exactly
\* when it starts more than 180 seconds after that first failure.
C12_OutageStart ==
  [][/\ (disconnectedTime' # null) <=> retried'
     /\ (Count(calls', "setTimeout") > 0) =>
          /\ disconnectedTime' = IF disconnectedTime = null THEN now
                                                            ELSE disconnectedTime
          /\ DisconnectedComputed(calls',
               now - disconnectedTime' > DisconnectedAfter)
     /\ lastOp' = "onConnected" => disconnectedTime' = null]_vars

\* a later failure of an outage kept the time of the first one, and the
\* disconnected status was computed from it
C12_Witness ==
  /\ FailureHandled
  /\ prevDelay > 0
  /\ disconnectedTime = StartTime
  /\ now - StartTime > DisconnectedAfter
  /\ Count(calls, "setAppValue") > 0
  /\ DisconnectedComputed(calls, TRUE)

\* C13: every run of onConnected leaves the store with isConnected set and
\* isReconnecting, isDisconnected and isRestarting clear.
C13_OpenSetsFlags ==
  lastOp = "onConnected" =>
    app = [isConnected |-> TRUE, isReconnecting |-> FALSE,
           isDisconnected |-> FALSE, isRestarting |-> FALSE]

\* onConnected ran with flags set before it, took the refetch branch and
\* left the four flags as claimed
C13_Witness ==
  /\ lastOp = "onConnected"
  /\ RefetchedOnce(calls)
  /\ Count(calls, "dispatchSetAppValue") = 1
  /\ app.isConnected /\ ~app.isReconnecting
  /\ ~app.isDisconnected /\ ~app.isRestarting

\* C14: while window.Lidarr.unloading is set, a close or a start failure
\* schedules no timer, leaves disconnectedTime and retryInterval unchanged
\* and dispatches nothing.
C14_UnloadingNoEffect ==
  [][unloading =>
       /\ Count(calls', "setTimeout") = 0
       /\ Count(calls', "setAppValue") = 0
       /\ lastOp' \in {"onClose", "onError", "onClose+onError", "retryTimeout"} =>
            disconnectedTime' = disconnectedTime
       /\ lastOp' \in {"onClose", "onError", "onClose+onError"} =>
            /\ timers' = timers
            /\ retryInterval' = retryInterval
            /\ retryTimeoutId' = retryTimeoutId
            /\ app' = app
            /\ calls' = <<>>]_vars

\* an open connection closed while the page was unloading
C14_Witness ==
  /\ unloading
  /\ lastOp = "onClose"
  /\ connState = "Disconnected"
  /\ calls = <<>>

\* the calls of the last task that are neither logging nor the handler lookup
Dispatched == SelectSeq(calls, LAMBDA c :
                c.fn \notin {"console.debug", "console.error", "handler"})

\* the last task handled a message of the given name
Handled(name) ==
  /\ lastOp = "onReceiveMessage"
  /\ calls[1].arg.name = name

\* C15: a 'command' message with action 'sync' dispatches only fetchCommands;
\* otherwise a resource with status 'completed' or 'failed' dispatches
\* finishCommand and never updateCommand, and any other status dispatches
\* updateCommand and never finishCommand.
C15_CommandFinished ==
  Handled("command") =>
    LET body == calls[1].arg.body
    IN  IF body.action = "sync"
          THEN Dispatched = <<Call("dispatchFetchCommands", <<>>)>>
          ELSE IF body.resource.status \in {"completed", "failed"}
                 THEN Dispatched = <<Call("dispatchFinishCommand", body.resource)>>
                 ELSE Dispatched = <<Call("dispatchUpdateCommand", body.resource)>>

\* a failed command was finished
C15_Witness ==
  /\ Handled("command")
  /\ calls[1].arg.body.action # "sync"
  /\ calls[1].arg.body.resource.status = "failed"
  /\ Count(calls, "dispatchFinishCommand") = 1

\* C16: every 'trackfile' message calls repopulatePage('trackFileUpdated')
\* exactly once; action 'updated' also dispatches updateItem for section
\* trackFiles, action 'deleted' removeItem with the id of the resource, and
\* any other action dispatches nothing.
C16_TrackfileRepopulates ==
  Handled("trackfile") =>
    LET body == calls[1].arg.body
        repopulate == Call("repopulatePage", "trackFileUpdated")
    IN  CASE body.action = "updated" ->
               /\ Len(Dispatched) = 2
               /\ Dispatched[1].fn = "dispatchUpdateItem"
               /\ Dispatched[1].arg = [section |-> "trackFiles",
                                       resource |-> body.resource]
               /\ Dispatched[2] = repopulate
          [] body.action = "deleted" ->
               /\ Len(Dispatched) = 2
               /\ Dispatched[1].fn = "dispatchRemoveItem"
               /\ Dispatched[1].arg = [section |-> "trackFiles",
                                       id |-> body.resource.id]
               /\ Dispatched[2] = repopulate
          [] OTHER -> Dispatched = <<repopulate>>

\* a trackfile message with an action that dispatches nothing repopulated
C16_Witness ==
  /\ Handled("trackfile")
  /\ calls[1].arg.body.action = "added"
  /\ Count(calls, "repopulatePage") = 1

\* C17: a 'queue' message dispatches fetchQueue exactly when the paged queue
\* of the store is populated, and nothing otherwise.
C17_QueueFetchedIfPopulated ==
  Handled("queue") =>
    IF isQueuePopulated
      THEN Dispatched = <<Call("dispatchFetchQueue", <<>>)>>
      ELSE Dispatched = <<>>

\* a queue message arrived while the queue was not populated
C17_Witness ==
  /\ Handled("queue")
  /\ ~isQueuePopulated
  /\ Count(calls, "dispatchFetchQueue") = 0

\* the position of the first call named fn with argument arg, 0 if none
FirstCall(cs, fn, arg) ==
  IF \E i \in 1..Len(cs) : cs[i].fn = fn /\ cs[i].arg = arg
    THEN CHOOSE i \in 1..Len(cs) :
           /\ cs[i].fn = fn /\ cs[i].arg = arg
           /\ \A j \in 1..(i - 1) : ~(cs[j].fn = fn /\ cs[j].arg = arg)
    ELSE 0

\* C18: the callbacks onclose, 'receiveVersion' and 'receiveMessage' are all
\* registered before componentDidMount starts the connection, and no start
\* is attempted on a connection that lacks one of them.
C18_CallbacksBeforeStart ==
  \A i \in 1..Len(calls) :
    calls[i].fn = "start" =>
      /\ registered = {"onclose", "receiveVersion", "receiveMessage"}
      /\ lastOp = "componentDidMount" =>
           /\ FirstCall(calls, "onclose", <<>>) \in 1..(i - 1)
           /\ FirstCall(calls, "on", "receiveVersion") \in 1..(i - 1)
           /\ FirstCall(calls, "on", "receiveMessage") \in 1..(i - 1)

\* componentDidMount registered the callbacks and started the connection
C18_Witness ==
  /\ lastOp = "componentDidMount"
  /\ connState = "Connecting"
  /\ Count(calls, "start") = 1
  /\ Count(calls, "on") = 2

====
